---------------------------- MODULE Spec2Model ----------------------------
(***************************************************************************)
(* The multi-currency display script of                                    *)
(* src/squarespace-display-multi-currency.js as a state machine.           *)
(*                                                                         *)
(* Text is a sequence of one-character strings, so that split, match,      *)
(* replace and parseFloat are computed character by character.  Numbers    *)
(* are exact decimals [nan, int, scale] standing for int / 10^scale; the   *)
(* binary rounding of IEEE doubles is not modelled.  The alphabet of the   *)
(* texts has letters, digits, "$", ",", ".", " " and the line feed: no     *)
(* signs, exponents or leading white space reach parseFloat.               *)
(***************************************************************************)
EXTENDS Integers, Sequences, FiniteSets, TLC

(***************************************************************************)
(* Bounds of the model.                                                    *)
(***************************************************************************)
\* render cycles (calls of displayCurrencies) a behaviour may start
MaxCycles == 3
\* text lines handed to parseCsvRows in the parser's own specification
MaxRows == 2

(***************************************************************************)
(* Characters and numbers.                                                 *)
(***************************************************************************)
Digits == {"0", "1", "2", "3", "4", "5", "6", "7", "8", "9"}

Letters == {"A", "B", "C", "D", "E", "F", "G", "H", "I", "J", "K", "L", "M",
            "N", "O", "P", "Q", "R", "S", "T", "U", "V", "W", "X", "Y", "Z",
            "a", "b", "c", "d", "e", "f", "g", "h", "i", "j", "k", "l", "m",
            "n", "o", "p", "q", "r", "s", "t", "u", "v", "w", "x", "y", "z"}

DigitVal(c) ==
    CASE c = "0" -> 0 [] c = "1" -> 1 [] c = "2" -> 2 [] c = "3" -> 3
      [] c = "4" -> 4 [] c = "5" -> 5 [] c = "6" -> 6 [] c = "7" -> 7
      [] c = "8" -> 8 [] c = "9" -> 9

RECURSIVE Pow10(_)
Pow10(k) == IF k = 0 THEN 1 ELSE 10 * Pow10(k - 1)

\* the value NaN of a JavaScript number
NaN == [nan |-> TRUE, int |-> 0, scale |-> 0]

\* the decimal int / 10^scale, with trailing zeros of the fraction dropped
RECURSIVE Num(_, _)
Num(n, k) ==
    IF k > 0 /\ n % 10 = 0 THEN Num(n \div 10, k - 1)
    ELSE [nan |-> FALSE, int |-> n, scale |-> k]

\* a * b of JavaScript numbers: NaN is absorbing
Times(a, b) ==
    IF a.nan \/ b.nan THEN NaN ELSE Num(a.int * b.int, a.scale + b.scale)

\* the value of a run of digits read as a natural number
RECURSIVE DigitsValue(_)
DigitsValue(s) ==
    IF s = <<>> THEN 0
    ELSE 10 * DigitsValue(SubSeq(s, 1, Len(s) - 1)) + DigitVal(s[Len(s)])

\* the length of the run of digits of s that starts at position i
RECURSIVE DigitRun(_, _)
DigitRun(s, i) ==
    IF i <= Len(s) /\ s[i] \in Digits THEN 1 + DigitRun(s, i + 1) ELSE 0

\* the value undefined, as the text ToString gives it to parseFloat
Undefined == <<"u", "n", "d", "e", "f", "i", "n", "e", "d">>

\* parseFloat: the longest prefix of s that is a decimal literal, NaN when
\* there is none; what follows the literal is ignored
parseFloat(s) ==
    LET n == DigitRun(s, 1)
        dot == n < Len(s) /\ s[n + 1] = "."
        f == IF dot THEN DigitRun(s, n + 2) ELSE 0
    IN  IF n = 0 /\ f = 0 THEN NaN
        ELSE Num(DigitsValue(SubSeq(s, 1, n)) * Pow10(f)
                   + DigitsValue(SubSeq(s, n + 2, n + 1 + f)), f)

\* String.prototype.split(sep) for a one-character separator
RECURSIVE Split(_, _)
Split(s, sep) ==
    IF \E i \in 1..Len(s) : s[i] = sep
    THEN LET i == CHOOSE j \in 1..Len(s) :
                     s[j] = sep /\ \A k \in 1..(j - 1) : s[k] # sep
         IN  <<SubSeq(s, 1, i - 1)>> \o Split(SubSeq(s, i + 1, Len(s)), sep)
    ELSE <<s>>


(***************************************************************************)
(* The pure functions of the script.                                       *)
(***************************************************************************)
\* const [currency, rate] = row.split(','): the first two fields, a missing
\* second one being undefined
Destructure(row) ==
    LET fields == Split(row, ",")
    IN  [currency |-> fields[1],
         rate |-> IF Len(fields) >= 2 THEN fields[2] ELSE Undefined]

\* the callback of rows.map in parseCsvRows
parseCsvRow(row) ==
    [currency |-> Destructure(row).currency,
     rate |-> parseFloat(Destructure(row).rate)]

\* a parser that filters out the rows it cannot read
parseCsvRowsDropping(rows) ==
    LET good == SelectSeq(rows, LAMBDA r : ~parseCsvRow(r).rate.nan)
    IN  [i \in 1..Len(good) |-> parseCsvRow(good[i])]

parseCsvRows(rows) == [i \in 1..Len(rows) |-> parseCsvRow(rows[i])]

\* textContent.match(/\d+(\.\d+)?/): the first run of digits with an optional
\* fraction, or <<>> standing for null; [0] of the match is at index 1
MatchPrice(text) ==
    IF \A i \in 1..Len(text) : text[i] \notin Digits THEN <<>>
    ELSE LET i == CHOOSE j \in 1..Len(text) :
                     text[j] \in Digits /\ \A k \in 1..(j - 1) : text[k] \notin Digits
             n == DigitRun(text, i)
             dot == i + n <= Len(text) /\ text[i + n] = "."
             f == IF dot THEN DigitRun(text, i + n + 1) ELSE 0
         IN  <<SubSeq(text, i, IF f > 0 THEN i + n + f ELSE i + n - 1)>>

\* .replace(/,/g, '')
StripCommas(s) == SelectSeq(s, LAMBDA c : c # ",")

\* IsWellFormedCurrencyCode of ECMA-402: three ASCII letters; the constructor
\* of Intl.NumberFormat throws a RangeError for any other code
IsWellFormedCurrencyCode(c) ==
    Len(c) = 3 /\ \A i \in 1..3 : c[i] \in Letters

\* the minor-unit digits of the currencies of the feeds: none for the yen
CurrencyDigits(c) == IF c = <<"J", "P", "Y">> THEN 0 ELSE 2

\* Intl.NumberFormat('en-US', {style: 'currency', currency}).format(amount):
\* the amount rounded half away from zero to the currency's digits and
\* tagged with the currency; NaN stays NaN
FormatCurrency(currency, amount) ==
    LET d == CurrencyDigits(currency)
        k == amount.scale
    IN  [currency |-> currency,
         amount |->
            IF amount.nan THEN NaN
            ELSE IF k <= d
                 THEN [nan |-> FALSE, int |-> amount.int * Pow10(d - k), scale |-> d]
                 ELSE [nan |-> FALSE,
                       int |-> (amount.int + Pow10(k - d) \div 2) \div Pow10(k - d),
                       scale |-> d]]

\* listItemElement.textContent = `${currency}: ${value}`
ListItemText(currency, value) == <<currency, ": ", value>>

\* a list built back to front: appendChild replaced by a prepend
ListItemsReversed(rates, price) ==
    [i \in 1..Len(rates) |->
        LET r == rates[Len(rates) + 1 - i]
        IN  ListItemText(r.currency,
                         FormatCurrency(r.currency, Times(price, r.rate)))]

\* formattedRates, then one <li> per formatted rate, in order
ListItems(rates, price) ==
    [i \in 1..Len(rates) |->
        ListItemText(rates[i].currency,
                     FormatCurrency(rates[i].currency, Times(price, rates[i].rate)))]

BlockId == "multi-currency-display"

\* the <div id="multi-currency-display"> with its <p> and its <ul>
DisplayBlock(items) ==
    [id |-> BlockId,
     heading |-> "Approximate price in other currencies",
     list |-> items]

IsBlock(e) == e.id = BlockId

\* getElementById(...).remove() left out
RemoveStaleNothing(children) == children

\* getElementById returns the first element with the id in document order;
\* remove() takes that one element out
RemoveStale(children) ==
    IF \E i \in 1..Len(children) : IsBlock(children[i])
    THEN LET i == CHOOSE j \in 1..Len(children) :
                     IsBlock(children[j]) /\ \A k \in 1..(j - 1) : ~IsBlock(children[k])
         IN  SubSeq(children, 1, i - 1) \o SubSeq(children, i + 1, Len(children))
    ELSE children

\* appendChild in the place of insertBefore(..., firstChild)
InsertLast(children, block) == Append(children, block)

\* the block written over the content of the container
ReplaceChildren(children, block) == <<block>>

\* detailsElement.insertBefore(parentElement, detailsElement.firstChild)
InsertFirst(children, block) == <<block>> \o children

\* a guard that lets every page through
IsProductPageAlways(content) == TRUE

\* pageType.getAttribute('content') == 'product'
IsProductPage(content) == content = "product"

(***************************************************************************)
(* The page and the feed: the values the environment can hand the script.  *)
(***************************************************************************)
\* the meta tag og:type is missing: querySelector returns null
NoMeta == "(no og:type meta)"

OgTypes == {"product", "website", NoMeta}

\* "From $4.50", "$1,234.56" and "Sold out"
PriceTexts ==
    { <<"F", "r", "o", "m", " ", "$", "4", ".", "5", "0">>,
      <<"$", "1", ",", "2", "3", "4", ".", "5", "6">>,
      <<"S", "o", "l", "d", " ", "o", "u", "t">> }

\* the element .product-price: missing, or present with a text
PriceElements ==
    {[present |-> FALSE, text |-> <<>>]}
        \cup {[present |-> TRUE, text |-> t] : t \in PriceTexts}

\* the bodies of the published sheet: two well-formed rows; a row and a final
\* line feed; a row with no comma; a row with a rate that is no number
FeedBodies ==
    { <<"U", "S", "D", ",", "1", "\n", "E", "U", "R", ",", "0", ".", "5">>,
      <<"U", "S", "D", ",", "2", "\n">>,
      <<"J", "P", "Y">>,
      <<"E", "U", "R", ",", "x">> }

\* the child the details container has before the script runs
Excerpt == [id |-> "", heading |-> "excerpt", list |-> <<>>]

(***************************************************************************)
(* The state.                                                              *)
(***************************************************************************)
VARIABLES
    ogType,         \* content of the meta tag og:type, or NoMeta
    priceEl,        \* the element .product-price
    detailsPresent, \* whether .ProductItem-details-excerpt exists
    details,        \* the children of the details container, first to last
    selectPresent,  \* whether .variant-select-wrapper select exists
    listeners,      \* the 'change' listeners of the select, in order
    changePending,  \* a 'change' event was dispatched and is being handled
    domLoaded,      \* DOMContentLoaded has fired
    cycles,         \* the calls of displayCurrencies, in the order they started
    fetches,        \* calls of fetch so far
    log,            \* what console.error has written
    initErrors,     \* TypeErrors that escaped initCurrencyConversion
    rowsIn,         \* the parser's specification: the lines handed to it
    recordsOut      \* the parser's specification: what parseCsvRows returned

vars == <<ogType, priceEl, detailsPresent, details, selectPresent, listeners,
          changePending, domLoaded, cycles, fetches, log, initErrors,
          rowsIn, recordsOut>>

pageVars == <<ogType, priceEl, detailsPresent, selectPresent>>
parserVars == <<rowsIn, recordsOut>>

\* a call of displayCurrencies: where it stands, what getExchangeRates
\* returned to it, and the log entries it wrote
Cycle(pc, rates, logged) == [pc |-> pc, rates |-> rates, logged |-> logged]

\* the promise of the call is settled: it returned or it threw
Finished(c) ==
    c.pc \in {"skipped", "done", "threwGuard", "threwText", "threwPrice",
              "threwFormat", "threwInsert"}

\* the continuation of a cycle is queued as a microtask, or the handlers of a
\* dispatched event have not all run: no other task starts before that
Quiescent ==
    /\ ~changePending
    /\ \A i \in 1..Len(cycles) : cycles[i].pc # "returned"

Blocks(children) == SelectSeq(children, IsBlock)

Init ==
    /\ ogType \in OgTypes
    /\ priceEl \in PriceElements
    /\ detailsPresent \in BOOLEAN
    /\ details = IF detailsPresent THEN <<Excerpt>> ELSE <<>>
    /\ selectPresent \in BOOLEAN
    /\ listeners = <<>>
    /\ changePending = FALSE
    /\ domLoaded = FALSE
    /\ cycles = <<>>
    /\ fetches = 0
    /\ log = <<>>
    /\ initErrors = 0
    /\ rowsIn = <<>>
    /\ recordsOut = <<>>

(***************************************************************************)
(* displayCurrencies, lines 26-34: the call runs to its first await, inside *)
(* getExchangeRates, in one step.                                          *)
(***************************************************************************)
\* what one call does to the calls, the children and the count of fetches,
\* gathered in the record st
StartedCycle(st) ==
    IF ogType = NoMeta
    THEN \* pageType is null: getAttribute throws a TypeError
         [st EXCEPT !.cycles = Append(@, Cycle("threwGuard", <<>>, 0))]
    ELSE IF ~IsProductPage(ogType)
    THEN [st EXCEPT !.cycles = Append(@, Cycle("skipped", <<>>, 0))]
    ELSE [cycles |-> Append(st.cycles, Cycle("fetch", <<>>, 0)),
          details |-> RemoveStale(st.details),
          fetches |-> st.fetches + 1]

\* n calls in a row, none of them past its first await
RECURSIVE StartedCycles(_, _)
StartedCycles(st, n) ==
    IF n = 0 THEN st ELSE StartedCycles(StartedCycle(st), n - 1)

\* the listeners of an event run one after another: each is displayCurrencies
Dispatch(n) ==
    LET st == StartedCycles([cycles |-> cycles, details |-> details,
                             fetches |-> fetches], n)
    IN  /\ cycles' = st.cycles
        /\ details' = st.details
        /\ fetches' = st.fetches

displayCurrencies == Dispatch(1)

\* a registration that adds an entry whether or not the callback is there
AddEventListenerAgain(list, callback) == Append(list, callback)

\* addEventListener keeps one entry per (type, callback): registering the
\* same function again changes nothing
AddEventListener(list, callback) ==
    IF \E i \in 1..Len(list) : list[i] = callback THEN list
    ELSE Append(list, callback)

\* line 73 throws a TypeError when the select is missing (variantSelect is
\* null), after line 71 has made its call
initCurrencyConversion ==
    /\ displayCurrencies
    /\ IF selectPresent
       THEN /\ listeners' = AddEventListener(listeners, "displayCurrencies")
            /\ UNCHANGED initErrors
       ELSE /\ initErrors' = initErrors + 1
            /\ UNCHANGED listeners

DOMContentLoaded ==
    /\ ~domLoaded
    /\ Quiescent
    /\ Len(cycles) < MaxCycles
    /\ domLoaded' = TRUE
    /\ initCurrencyConversion
    /\ UNCHANGED <<pageVars, changePending, log, parserVars>>

MercuryLoad ==
    /\ Quiescent
    /\ Len(cycles) < MaxCycles
    /\ initCurrencyConversion
    /\ UNCHANGED <<pageVars, changePending, domLoaded, log, parserVars>>

\* the shopper picks a variant: the platform shows that variant's price and
\* the select dispatches 'change'
SelectVariant ==
    /\ selectPresent
    /\ Quiescent
    /\ Len(cycles) < MaxCycles
    /\ \E p \in PriceElements : priceEl' = p
    /\ changePending' = TRUE
    /\ UNCHANGED <<ogType, detailsPresent, details, selectPresent, listeners,
                   domLoaded, cycles, fetches, log, initErrors, parserVars>>

\* the 'change' event reaches the listeners of the select
\* a change of variant that reaches no listener
ChangeEventIgnored ==
    /\ changePending
    /\ changePending' = FALSE
    /\ UNCHANGED <<pageVars, details, listeners, domLoaded, cycles, fetches,
                   log, initErrors, parserVars>>

ChangeEvent ==
    /\ changePending
    /\ changePending' = FALSE
    /\ Dispatch(Len(listeners))
    /\ UNCHANGED <<pageVars, listeners, domLoaded, log, initErrors, parserVars>>

\* the Mercury loader swaps in the data of another page, whose og:type
\* differs
Navigate ==
    /\ Quiescent
    /\ \E t \in {"product", "website"} : t # ogType /\ ogType' = t
    /\ UNCHANGED <<priceEl, detailsPresent, details, selectPresent, listeners,
                   changePending, domLoaded, cycles, fetches, log, initErrors,
                   parserVars>>

(***************************************************************************)
(* getExchangeRates, lines 10-24.                                          *)
(***************************************************************************)
\* line 18: the text console.error writes first
LogMessage == "Error fetching exchange rates:"

\* a catch block that hands back a row it has kept
RatesOnFailureStale == <<[currency |-> <<"U", "S", "D">>, rate |-> Num(1, 0)]>>

\* line 19: return []
RatesOnFailure == <<>>

\* the fetch resolves with response.ok: the call goes on to await text()
FetchSucceeds(c) ==
    /\ Quiescent
    /\ cycles[c].pc = "fetch"
    /\ cycles' = [cycles EXCEPT ![c].pc = "text"]
    /\ UNCHANGED <<pageVars, details, listeners, changePending, domLoaded,
                   fetches, log, initErrors, parserVars>>

\* the fetch rejects, or resolves with a status that is not ok and line 15
\* throws: the catch block logs and returns.  The entry is the message; the
\* error object printed after it is left out of the state
FetchFails(c, error) ==
    /\ Quiescent
    /\ cycles[c].pc = "fetch"
    /\ log' = Append(log, LogMessage)
    /\ cycles' = [cycles EXCEPT ![c] =
                     Cycle("returned", RatesOnFailure, cycles[c].logged + 1)]
    /\ UNCHANGED <<pageVars, details, listeners, changePending, domLoaded,
                   fetches, initErrors, parserVars>>

\* response.text() resolves: lines 22-23
ReadText(c, csv) ==
    /\ Quiescent
    /\ cycles[c].pc = "text"
    /\ cycles' = [cycles EXCEPT ![c].pc = "returned",
                                ![c].rates = parseCsvRows(Split(csv, "\n"))]
    /\ UNCHANGED <<pageVars, details, listeners, changePending, domLoaded,
                   fetches, log, initErrors, parserVars>>

\* response.text() rejects outside the try block: the rejection passes
\* through getExchangeRates and displayCurrencies
ReadTextFails(c) ==
    /\ Quiescent
    /\ cycles[c].pc = "text"
    /\ cycles' = [cycles EXCEPT ![c].pc = "threwText"]
    /\ UNCHANGED <<pageVars, details, listeners, changePending, domLoaded,
                   fetches, log, initErrors, parserVars>>

(***************************************************************************)
(* displayCurrencies, lines 34-66: from the return of getExchangeRates to   *)
(* the end in one step, there being no await in between.                   *)
(***************************************************************************)
\* lines 35-39; called only where the match exists
ExtractPrice(text) == parseFloat(StripCommas(MatchPrice(text)[1]))

PriceParseable(el) == el.present /\ MatchPrice(el.text) # <<>>

\* a continuation that reads rates[0] and so throws on an empty feed
ResumeOutcomeNeedsRates(rates) ==
    IF ~PriceParseable(priceEl) THEN "threwPrice"
    ELSE IF rates = <<>> THEN "threwFormat"
    ELSE IF \E i \in 1..Len(rates) : ~IsWellFormedCurrencyCode(rates[i].currency)
    THEN "threwFormat"
    ELSE IF ~detailsPresent THEN "threwInsert"
    ELSE "done"

\* where the continuation ends: the first statement that throws, or "done"
ResumeOutcome(rates) ==
    IF ~PriceParseable(priceEl) THEN "threwPrice"
    ELSE IF \E i \in 1..Len(rates) : ~IsWellFormedCurrencyCode(rates[i].currency)
    THEN "threwFormat"
    ELSE IF ~detailsPresent THEN "threwInsert"
    ELSE "done"

\* a continuation wrapped in a try block that logs what it catches
ResumeLoggingAbort(c) ==
    /\ ~changePending
    /\ cycles[c].pc = "returned"
    /\ LET out == ResumeOutcome(cycles[c].rates)
       IN  /\ cycles' = [cycles EXCEPT ![c].pc = out, ![c].rates = <<>>,
                                       ![c].logged = IF out = "done" THEN @ ELSE @ + 1]
           /\ log' = IF out = "done" THEN log ELSE Append(log, LogMessage)
           /\ details' =
                IF out = "done"
                THEN InsertFirst(details,
                        DisplayBlock(ListItems(cycles[c].rates,
                                               ExtractPrice(priceEl.text))))
                ELSE details
    /\ UNCHANGED <<pageVars, listeners, changePending, domLoaded, fetches,
                   initErrors, parserVars>>

Resume(c) ==
    /\ ~changePending
    /\ cycles[c].pc = "returned"
    /\ LET out == ResumeOutcome(cycles[c].rates)
       IN  /\ cycles' = [cycles EXCEPT ![c].pc = out, ![c].rates = <<>>]
           /\ details' =
                IF out = "done"
                THEN InsertFirst(details,
                        DisplayBlock(ListItems(cycles[c].rates,
                                               ExtractPrice(priceEl.text))))
                ELSE details
    /\ UNCHANGED <<pageVars, listeners, changePending, domLoaded, fetches, log,
                   initErrors, parserVars>>

Next ==
    \/ DOMContentLoaded
    \/ MercuryLoad
    \/ SelectVariant
    \/ ChangeEvent
    \/ Navigate
    \/ \E c \in 1..Len(cycles) : FetchSucceeds(c)
    \/ \E c \in 1..Len(cycles), e \in {"TypeError", "HTTP error"} : FetchFails(c, e)
    \/ \E c \in 1..Len(cycles), csv \in FeedBodies : ReadText(c, csv)
    \/ \E c \in 1..Len(cycles) : ReadTextFails(c)
    \/ \E c \in 1..Len(cycles) : Resume(c)

Spec == Init /\ [][Next]_vars

(***************************************************************************)
(* Render cycles one after another: a page-ready signal or a variant       *)
(* selection arrives only when every earlier cycle has finished.           *)
(***************************************************************************)
AllFinished == \A i \in 1..Len(cycles) : Finished(cycles[i])

NextSeq ==
    \/ AllFinished /\ DOMContentLoaded
    \/ AllFinished /\ MercuryLoad
    \/ AllFinished /\ SelectVariant
    \/ ChangeEvent
    \/ Navigate
    \/ \E c \in 1..Len(cycles) : FetchSucceeds(c)
    \/ \E c \in 1..Len(cycles), e \in {"TypeError", "HTTP error"} : FetchFails(c, e)
    \/ \E c \in 1..Len(cycles), csv \in FeedBodies : ReadText(c, csv)
    \/ \E c \in 1..Len(cycles) : ReadTextFails(c)
    \/ \E c \in 1..Len(cycles) : Resume(c)

SpecSeq == Init /\ [][NextSeq]_vars

(***************************************************************************)
(* parseCsvRows on its own: the lines a feed can hold, in sequences of at  *)
(* most MaxRows.                                                           *)
(***************************************************************************)
\* "USD,1"  "EUR,0.5"  "GBP,12.34"  "USD,1.50"  ""  "JPY"  "EUR,x"  "USD,"
\* ",2"  "CAD,1.5,7"  "USD,1x"
Lines ==
    { <<"U", "S", "D", ",", "1">>,
      <<"E", "U", "R", ",", "0", ".", "5">>,
      <<"G", "B", "P", ",", "1", "2", ".", "3", "4">>,
      <<"U", "S", "D", ",", "1", ".", "5", "0">>,
      <<>>,
      <<"J", "P", "Y">>,
      <<"E", "U", "R", ",", "x">>,
      <<"U", "S", "D", ",">>,
      <<",", "2">>,
      <<"C", "A", "D", ",", "1", ".", "5", ",", "7">>,
      <<"U", "S", "D", ",", "1", "x">> }

RowSeqs == UNION {[1..n -> Lines] : n \in 0..MaxRows}

InitParse ==
    /\ ogType = "product"
    /\ priceEl = [present |-> FALSE, text |-> <<>>]
    /\ detailsPresent = FALSE
    /\ details = <<>>
    /\ selectPresent = FALSE
    /\ listeners = <<>>
    /\ changePending = FALSE
    /\ domLoaded = FALSE
    /\ cycles = <<>>
    /\ fetches = 0
    /\ log = <<>>
    /\ initErrors = 0
    /\ rowsIn = <<>>
    /\ recordsOut = <<>>

ParseRows ==
    /\ \E rows \in RowSeqs :
          /\ rowsIn' = rows
          /\ recordsOut' = parseCsvRows(rows)
    /\ UNCHANGED <<pageVars, details, listeners, changePending, domLoaded,
                   cycles, fetches, log, initErrors>>

NextParse == ParseRows

SpecParse == InitParse /\ [][NextParse]_vars

(***************************************************************************)
(* The properties of the script.                                           *)
(***************************************************************************)
NonBlocks(children) == SelectSeq(children, LAMBDA e : ~IsBlock(e))

\* the step is the continuation of cycle c, from the return of
\* getExchangeRates to the end of displayCurrencies
Resumes(c) == cycles[c].pc = "returned" /\ cycles'[c].pc # "returned"

\* the step starts a render cycle
StartsCycle == Len(cycles') = Len(cycles) + 1

\* C1: in every reachable state the page holds at most one element with the
\* id multi-currency-display, however the render cycles interleave.
AtMostOneDisplayBlock == Len(Blocks(details)) <= 1

\* C2: when two or more render cycles have run one after another, each to
\* its end before the next started, and the last one inserted its block, the
\* page holds exactly one display block.
IdempotentRender ==
    (/\ Len(cycles) >= 2
     /\ AllFinished
     /\ cycles[Len(cycles)].pc = "done")
        => Len(Blocks(details)) = 1

\* two cycles in a row have inserted, and one block is left
IdempotentRenderWitness ==
    /\ Len(cycles) >= 2
    /\ AllFinished
    /\ cycles[1].pc = "done"
    /\ cycles[2].pc = "done"
    /\ Len(Blocks(details)) = 1

\* C3: a render cycle started on a page whose og:type content is not
\* "product" calls fetch not at all, removes nothing, inserts nothing and
\* writes nothing, at its start and ever after.
NonProductPageUntouched ==
    [][/\ (StartsCycle /\ ogType \notin {"product", NoMeta})
            => /\ cycles'[Len(cycles')].pc = "skipped"
               /\ fetches' = fetches
               /\ details' = details
               /\ log' = log
       /\ \A c \in 1..Len(cycles) :
            cycles[c].pc = "skipped" => cycles'[c] = cycles[c]]_vars

\* a cycle was skipped on a non-product page that still shows a block of an
\* earlier product page
NonProductPageWitness ==
    /\ ogType = "website"
    /\ Len(cycles) >= 2
    /\ cycles[Len(cycles)].pc = "skipped"
    /\ Len(Blocks(details)) = 1
    /\ fetches = Len(cycles) - 1

\* C4: when the fetch of a cycle fails, getExchangeRates writes one log
\* entry and returns the empty sequence; nothing is thrown to the caller.
FetcherFailSoft ==
    [][\A c \in 1..Len(cycles) :
          (cycles[c].pc = "fetch" /\ cycles'[c].pc \notin {"fetch", "text"})
             => /\ cycles'[c].pc = "returned"
                /\ cycles'[c].rates = <<>>
                /\ cycles'[c].logged = 1
                /\ log' = Append(log, LogMessage)]_vars

\* getExchangeRates has returned from a failed fetch
FetcherFailSoftWitness ==
    \E c \in 1..Len(cycles) :
        /\ cycles[c].pc = "returned"
        /\ cycles[c].logged = 1
        /\ cycles[c].rates = <<>>
        /\ log = <<LogMessage>>

\* C5: on a page with a parseable price and a details container, the
\* continuation of a cycle whose fetch failed ends normally and inserts one
\* block, the heading with an empty list.
OutageStillRenders ==
    [][\A c \in 1..Len(cycles) :
          (/\ Resumes(c)
           /\ cycles[c].logged = 1
           /\ PriceParseable(priceEl)
           /\ detailsPresent)
             => /\ cycles'[c].pc = "done"
                /\ details' = <<DisplayBlock(<<>>)>> \o details]_vars

\* a cycle whose fetch failed has inserted the block with the empty list
OutageStillRendersWitness ==
    /\ \E c \in 1..Len(cycles) : cycles[c].pc = "done" /\ cycles[c].logged = 1
    /\ Len(details) >= 2
    /\ details[1] = DisplayBlock(<<>>)

\* C6, as stated: a cycle that aborts at the price extraction has written no
\* log entry.
PriceAbortCycleLogsNothing ==
    \A c \in 1..Len(cycles) :
        cycles[c].pc = "threwPrice" => cycles[c].logged = 0

\* C6, amended: when the price element is missing or its text has no digit,
\* the continuation aborts at the price extraction, inserts no block and
\* writes no log entry of its own; the one entry the cycle may have written
\* is the diagnostic of its failed fetch.
PriceAbortIsSilent ==
    [][\A c \in 1..Len(cycles) :
          (Resumes(c) /\ ~PriceParseable(priceEl))
             => /\ cycles'[c].pc = "threwPrice"
                /\ details' = details
                /\ log' = log
                /\ cycles'[c].logged = cycles[c].logged
                /\ cycles[c].logged = IF cycles[c].rates = <<>> THEN 1 ELSE 0]_vars

\* a cycle with rates of a working feed has aborted at the price extraction
PriceAbortWitness ==
    \E c \in 1..Len(cycles) :
        /\ cycles[c].pc = "threwPrice"
        /\ cycles[c].logged = 0
        /\ ~PriceParseable(priceEl)
        /\ Blocks(details) = <<>>
        /\ log = <<>>

\* C7: whatever the feed body, on a page with a parseable price and a
\* details container the continuation of a cycle raises no exception and
\* inserts a block with one entry per parsed row.
MalformedDataNeverThrows ==
    [][\A c \in 1..Len(cycles) :
          (Resumes(c) /\ PriceParseable(priceEl) /\ detailsPresent)
             => /\ cycles'[c].pc = "done"
                /\ Len(details') = Len(details) + 1
                /\ Len(details'[1].list) = Len(cycles[c].rates)]_vars

\* C8: no step of the script (every step but the shopper's selection of a
\* variant and the loader's change of page) changes the page type, the
\* price element, the presence of the details container or of the select,
\* or any child of the details container that is not a display block; a
\* step changes the children by taking out one display block or by putting
\* one in, or not at all.
ScriptStep == ~SelectVariant /\ ~Navigate

OneBlockOut(before, after) ==
    \E i \in 1..Len(before) :
        /\ IsBlock(before[i])
        /\ after = SubSeq(before, 1, i - 1) \o SubSeq(before, i + 1, Len(before))

OneBlockIn(before, after) ==
    /\ Len(after) = Len(before) + 1
    /\ \E i \in 1..Len(after) :
          /\ IsBlock(after[i])
          /\ before = SubSeq(after, 1, i - 1) \o SubSeq(after, i + 1, Len(after))

ScriptFrame ==
    [][ScriptStep
          => /\ pageVars' = pageVars
             /\ NonBlocks(details') = NonBlocks(details)
             /\ \/ details' = details
                \/ OneBlockOut(details, details')
                \/ OneBlockIn(details, details')]_vars

\* the script has removed a block and inserted blocks, and the excerpt is
\* still the one other child of the details container
ScriptFrameWitness ==
    /\ \E c \in 1..Len(cycles) : cycles[c].pc = "done"
    /\ \E c \in 1..Len(cycles) : cycles[c].pc = "fetch"
    /\ Len(Blocks(details)) = 0
    /\ details = <<Excerpt>>

\* C9: the list of the block a cycle inserts has one entry per rate record
\* the fetch returned, in the order of the feed: entry i is the code of
\* record i, ": ", and the price times rate i formatted in that currency.
ListFollowsFeed ==
    [][\A c \in 1..Len(cycles) :
          (Resumes(c) /\ cycles'[c].pc = "done")
             => LET rates == cycles[c].rates
                    price == ExtractPrice(priceEl.text)
                    list == details'[1].list
                IN  /\ IsBlock(details'[1])
                    /\ Len(list) = Len(rates)
                    /\ \A i \in 1..Len(rates) :
                          /\ list[i][1] = rates[i].currency
                          /\ list[i][2] = ": "
                          /\ list[i][3] =
                               FormatCurrency(rates[i].currency,
                                              Times(price, rates[i].rate))]_vars

\* price text "From $4.50" and feed "USD,1\nEUR,0.5": the block lists
\* USD 4.50 and then EUR 2.25
ListFollowsFeedWitness ==
    /\ Len(details) >= 1
    /\ IsBlock(details[1])
    /\ Len(details[1].list) = 2
    /\ details[1].list[1] =
          <<(<<"U", "S", "D">>), ": ",
            [currency |-> <<"U", "S", "D">>,
             amount |-> [nan |-> FALSE, int |-> 450, scale |-> 2]]>>
    /\ details[1].list[2] =
          <<(<<"E", "U", "R">>), ": ",
            [currency |-> <<"E", "U", "R">>,
             amount |-> [nan |-> FALSE, int |-> 225, scale |-> 2]]>>

\* C10: parseCsvRows returns one record per line, in the order of the lines;
\* the currency is the text before the first comma; a line with no comma,
\* or whose text after the comma does not begin with a decimal numeral, has
\* the rate NaN; a line of three letters, a comma and a decimal numeral has
\* these letters as currency and the value of the numeral as rate.
HasComma(line) == \E i \in 1..Len(line) : line[i] = ","

FirstComma(line) ==
    CHOOSE i \in 1..Len(line) :
        line[i] = "," /\ \A k \in 1..(i - 1) : line[k] # ","

BeforeComma(line) ==
    IF HasComma(line) THEN SubSeq(line, 1, FirstComma(line) - 1) ELSE line

AfterComma(line) == SubSeq(line, FirstComma(line) + 1, Len(line))

BeginsWithNumeral(s) ==
    /\ s # <<>>
    /\ \/ s[1] \in Digits
       \/ s[1] = "." /\ Len(s) >= 2 /\ s[2] \in Digits

\* digits, or digits "." digits
IsNumeral(s) ==
    /\ s # <<>>
    /\ \A i \in 1..Len(s) : s[i] \in Digits \cup {"."}
    /\ Cardinality({i \in 1..Len(s) : s[i] = "."}) <= 1
    /\ s[1] # "."
    /\ s[Len(s)] # "."

\* the value of a numeral: its digits as one natural number, over ten to
\* the number of digits behind the point
NumeralValue(s) ==
    LET dots == {i \in 1..Len(s) : s[i] = "."}
        behind == IF dots = {} THEN 0 ELSE Len(s) - (CHOOSE i \in dots : TRUE)
    IN  Num(DigitsValue(SelectSeq(s, LAMBDA ch : ch # ".")), behind)

WellFormedLine(line) ==
    /\ Len(line) >= 5
    /\ \A i \in 1..3 : line[i] \in Letters
    /\ line[4] = ","
    /\ IsNumeral(SubSeq(line, 5, Len(line)))

InitRuns ==
    /\ ~changePending
    /\ \/ Len(cycles') # Len(cycles)
       \/ initErrors' # initErrors
       \/ listeners' # listeners
       \/ domLoaded' # domLoaded

\* the step is the dispatch of a 'change' event to the listeners
ChangeDispatched == changePending /\ ~changePending'

\* C11: with or without the select, a run of initCurrencyConversion starts
\* exactly one render cycle and raises no error; a 'change' event on a
\* select with the listener registered starts a render cycle.
VariantControlOptional ==
    [][/\ InitRuns
            => /\ Len(cycles') = Len(cycles) + 1
               /\ initErrors' = initErrors
       /\ (ChangeDispatched /\ listeners # <<>>)
            => Len(cycles') > Len(cycles)]_vars

\* C12: the step in which a cycle inserts leaves the block that cycle built
\* as the first child of the details container, in front of all the
\* children that were there, blocks of other cycles among them.
InsertedBlockIsFirstChild ==
    [][\A c \in 1..Len(cycles) :
          (Resumes(c) /\ cycles'[c].pc = "done")
             => /\ Len(details') = Len(details) + 1
                /\ details'[1] =
                      DisplayBlock(ListItems(cycles[c].rates,
                                             ExtractPrice(priceEl.text)))
                /\ \A i \in 1..Len(details) : details'[i + 1] = details[i]]_vars

\* two overlapping cycles have inserted: a block with entries in front of a
\* block with the empty list, in front of the excerpt
InsertedBlockIsFirstChildWitness ==
    /\ Len(details) = 3
    /\ IsBlock(details[1])
    /\ details[1].list # <<>>
    /\ details[2] = DisplayBlock(<<>>)
    /\ details[3] = Excerpt

(***************************************************************************)
(* Overlapping render cycles and then one alone: the cycles but the last   *)
(* may overlap; the last of the MaxCycles cycles starts only when every    *)
(* earlier one has finished, and no cycle starts after it.                 *)
(***************************************************************************)
LastRunsAlone == Len(cycles) + 1 < MaxCycles \/ AllFinished

NextLast ==
    \/ LastRunsAlone /\ DOMContentLoaded
    \/ LastRunsAlone /\ MercuryLoad
    \/ LastRunsAlone /\ SelectVariant
    \/ ChangeEvent
    \/ Navigate
    \/ \E c \in 1..Len(cycles) : FetchSucceeds(c)
    \/ \E c \in 1..Len(cycles), e \in {"TypeError", "HTTP error"} : FetchFails(c, e)
    \/ \E c \in 1..Len(cycles), csv \in FeedBodies : ReadText(c, csv)
    \/ \E c \in 1..Len(cycles) : ReadTextFails(c)
    \/ \E c \in 1..Len(cycles) : Resume(c)

SpecLast == Init /\ [][NextLast]_vars

\* C13: after cycles that overlapped, one more cycle that runs alone and
\* inserts its block leaves exactly one display block in the page.
OneCycleAloneRepairs ==
    (/\ Len(cycles) = MaxCycles
     /\ AllFinished
     /\ cycles[MaxCycles].pc = "done")
        => Len(Blocks(details)) = 1

\* the length of the run of digits and grouping commas of s that starts at i
RECURSIVE GroupedRun(_, _)
GroupedRun(s, i) ==
    IF i <= Len(s) /\ s[i] \in Digits \cup {","}
    THEN 1 + GroupedRun(s, i + 1) ELSE 0

\* the first number of a price text, grouping commas taken as part of it,
\* as a numeral without the commas; called only where the text has a digit
GroupedNumeral(text) ==
    LET i == CHOOSE j \in 1..Len(text) :
                 text[j] \in Digits /\ \A k \in 1..(j - 1) : text[k] \notin Digits
        n == GroupedRun(text, i)
        dot == i + n <= Len(text) /\ text[i + n] = "."
        f == IF dot THEN DigitRun(text, i + n + 1) ELSE 0
    IN  StripCommas(SubSeq(text, i, IF f > 0 THEN i + n + f ELSE i + n - 1))

\* C14: the price a cycle converts is the first number of the price text
\* with its thousands separators removed: "$1,234.56" is taken as 1234.56.
PriceWithoutSeparators ==
    [][\A c \in 1..Len(cycles) :
          (Resumes(c) /\ cycles'[c].pc = "done")
             => details'[1].list =
                   ListItems(cycles[c].rates,
                             NumeralValue(GroupedNumeral(priceEl.text)))]_vars

\* C15: a failure of the body read after a successful fetch stays inside
\* getExchangeRates: no cycle ends with the rejection of response.text().
BodyReadFailSoft ==
    \A c \in 1..Len(cycles) : cycles[c].pc # "threwText"

\* the cycles that passed the page-type guard and so called getExchangeRates
Requesting(cs) ==
    {c \in 1..Len(cs) : cs[c].pc \notin {"skipped", "threwGuard"}}

\* C16: every cycle on a product page issues exactly one request; a cycle
\* whose request is outstanding inserts nothing and does not end, and on a
\* page with a details container a cycle whose request has settled ends with
\* its block inserted or with the abort at the price extraction.
OneRequestThenEnd ==
    [][/\ fetches' = Cardinality(Requesting(cycles'))
       /\ \A c \in 1..Len(cycles) :
            /\ cycles[c].pc = "fetch"
                  => cycles'[c].pc \in {"fetch", "text", "returned"}
            /\ (detailsPresent /\ c \in Requesting(cycles)
                  /\ ~Finished(cycles[c]) /\ Finished(cycles'[c]))
                  => cycles'[c].pc \in {"done", "threwPrice"}]_vars

\* every started cycle has inserted its block, with its fetch succeeded
AllInserted ==
    /\ Len(cycles) >= 1
    /\ ~changePending
    /\ \A c \in 1..Len(cycles) : cycles[c].pc = "done" /\ cycles[c].logged = 0

\* C17: once every started cycle has inserted its block after a successful
\* fetch, the first child of the details container is a display block whose
\* amounts are those of a feed at the price displayed now, whatever the
\* order in which overlapping cycles inserted.
FirstBlockShowsCurrentPrice ==
    AllInserted
       => /\ IsBlock(details[1])
          /\ PriceParseable(priceEl)
          /\ \E csv \in FeedBodies :
                details[1].list =
                   ListItems(parseCsvRows(Split(csv, "\n")),
                             ExtractPrice(priceEl.text))

\* overlapping cycles, one of them started by a change of variant, have all
\* inserted: two blocks, the first with amounts that depend on the price
FirstBlockShowsCurrentPriceWitness ==
    /\ AllInserted
    /\ Len(cycles) = MaxCycles
    /\ listeners # <<>>
    /\ Len(Blocks(details)) >= 2
    /\ Len(details[1].list) = 2
    /\ ~details[1].list[1][3].amount.nan

(***************************************************************************)
(* The page-ready signals first: initCurrencyConversion runs ReadySignals  *)
(* times, each run starting one cycle, before the shopper selects a        *)
(* variant.                                                                *)
(***************************************************************************)
ReadySignals == 2

NextReadyFirst ==
    \/ Len(cycles) < ReadySignals /\ DOMContentLoaded
    \/ Len(cycles) < ReadySignals /\ MercuryLoad
    \/ Len(cycles) >= ReadySignals /\ SelectVariant
    \/ ChangeEvent
    \/ Navigate
    \/ \E c \in 1..Len(cycles) : FetchSucceeds(c)
    \/ \E c \in 1..Len(cycles), e \in {"TypeError", "HTTP error"} : FetchFails(c, e)
    \/ \E c \in 1..Len(cycles), csv \in FeedBodies : ReadText(c, csv)
    \/ \E c \in 1..Len(cycles) : ReadTextFails(c)
    \/ \E c \in 1..Len(cycles) : Resume(c)

SpecReadyFirst == Init /\ [][NextReadyFirst]_vars

\* C18: after initCurrencyConversion has run ReadySignals times against the
\* same variant control, the dispatch of one 'change' event starts exactly
\* one render cycle.
ChangeStartsOneCycle ==
    [][ChangeDispatched => Len(cycles') = Len(cycles) + 1]_vars

\* both page-ready signals have registered the listener and a change of
\* variant has then been dispatched
ChangeStartsOneCycleWitness ==
    /\ selectPresent
    /\ domLoaded
    /\ listeners = <<"displayCurrencies">>
    /\ ~changePending
    /\ Len(cycles) = ReadySignals + 1

=============================================================================
